---- MODULE Spec2Model ----
(***************************************************************************)
(* Model of the Rust support crate's build script                          *)
(* src/nunavut/lang/rust/support/build.rs: main() lists the directory      *)
(* src/namespaces, appends one "pub mod <name>;\n" line per entry that     *)
(* is a directory, then creates src/namespaces/mod.rs and writes the       *)
(* accumulated text into it.                                               *)
(*                                                                         *)
(* Text is modelled as sequences of bytes (String::as_bytes), file names   *)
(* as sequences of bytes (OsStr).  The file system is the content of       *)
(* src/namespaces: a function from entry names to what the entry is.       *)
(***************************************************************************)
EXTENDS Integers, Sequences, FiniteSets, TLC

-----------------------------------------------------------------------------
(* Bounds of the model.                                                    *)

\* Largest number of entries of src/namespaces besides mod.rs.
MaxEntries == 2

\* Largest number of successive runs of the build script.
MaxRuns == 2

-----------------------------------------------------------------------------
(* Byte strings.                                                           *)

\* The literal "pub mod " of the format string.
PubMod == <<112, 117, 98, 32, 109, 111, 100, 32>>

\* The literal ";\n" of the format string.
SemiNl == <<59, 10>>

\* The file name "mod.rs" of the path the script creates.
ModRs == <<109, 111, 100, 46, 114, 115>>

\* The file name "lib.rs".
OutputPathBug == <<108, 105, 98, 46, 114, 115>>

\* The path main() hands to File::create, relative to src/namespaces.
OutputPath == ModRs

\* Entry names the directory may hold: "a", "B", and the single byte 0xFF,
\* which is not valid UTF-8.
NamePool == {<<97>>, <<66>>, <<255>>}

\* What a pre-existing mod.rs may contain: nothing, one stale line
\* "pub mod zz;\n", or that line followed by an unfinished one "pub".
StalePool ==
  { <<>>,
    PubMod \o <<122, 122>> \o SemiNl,
    PubMod \o <<122, 122>> \o SemiNl \o <<112, 117, 98>> }

\* Option values: <<>> is None, <<v>> is Some(v).
None == <<>>
Some(v) == <<v>>

\* A lossy conversion in place of to_str().unwrap(): every byte that is not
\* ASCII is replaced by "?", and the conversion never fails.
ToStrLossy(name) ==
  Some([i \in 1..Len(name) |-> IF name[i] \in 0..127 THEN name[i] ELSE 63])

\* OsStr::to_str: Some(text) when the bytes are valid UTF-8, else None.
\* Bytes below 128 are ASCII; no sequence holding 0xFF is valid UTF-8.  (The
\* names of NamePool and "mod.rs" hold no other byte of 128 or more.)
ToStr(name) ==
  IF \A i \in 1..Len(name) : name[i] \in 0..127 THEN Some(name) ELSE None

\* format!("pub mod {};\n", namespace)
Format(namespace) == PubMod \o namespace \o SemiNl

-----------------------------------------------------------------------------
(* The file system below src/namespaces.                                   *)

\* kind is the type std::fs::metadata reports for the entry (is_dir follows
\* symbolic links); meta tells whether that metadata can be read; data is a
\* file's bytes; children are the names below a directory.
DirEntry(meta) ==
  [kind |-> "dir", meta |-> meta, data |-> <<>>, children |-> {<<120>>}]
FileEntry(meta, data) ==
  [kind |-> "file", meta |-> meta, data |-> data, children |-> {}]

EntryPool ==
  {DirEntry(m) : m \in BOOLEAN} \cup {FileEntry(m, <<120>>) : m \in BOOLEAN}

\* mod.rs before the first run: a plain file with stale content, or (a
\* misuse of the tree) a directory.
ModRsPool == {FileEntry(TRUE, s) : s \in StalePool} \cup {DirEntry(TRUE)}

Trees ==
  UNION {[S -> EntryPool] :
           S \in {T \in SUBSET NamePool : Cardinality(T) <= MaxEntries}}

FileSystems == Trees \cup {t @@ (ModRs :> m) : t \in Trees, m \in ModRsPool}

VARIABLES
  rootState,  \* "dir", "missing" or "unreadable": what src/namespaces is
  entries,    \* the content of src/namespaces: name -> entry
  entries0,   \* entries as they were when the current run started
  runs,       \* number of the current run
  prev,       \* how the previous run ended ("none" in the first run)
  pc,         \* the statement main() is at
  seen,       \* names the ReadDir iterator has returned so far, in order
  lib_rs,     \* the String lib_rs
  result,     \* "none" while running, else "Ok", "IoError" or "Panic"
  calls       \* file-system calls of the run: [op, path], path relative to
              \* src/namespaces (<<>> is src/namespaces itself)

vars ==
  <<rootState, entries, entries0, runs, prev, pc, seen, lib_rs, result, calls>>

Init ==
  /\ rootState \in {"dir", "missing", "unreadable"}
  /\ entries \in IF rootState = "missing" THEN {<<>>} ELSE FileSystems
  /\ entries0 = entries
  /\ runs = 1
  /\ prev = "none"
  /\ pc = "read_dir"
  /\ seen = <<>>
  /\ lib_rs = <<>>
  /\ result = "none"
  /\ calls = {}

Range(s) == {s[i] : i \in 1..Len(s)}

Call(op, path) == [op |-> op, path |-> path]

\* No is_dir test: every entry is taken for a namespace.
IsDirBug(fs, n) == TRUE

\* Path::exists in place of Path::is_dir.
IsDirExists(fs, n) == fs[n].meta

\* Path::is_dir: fs::metadata(path).map(|m| m.is_dir()).unwrap_or(false).
IsDir(fs, n) == fs[n].meta /\ fs[n].kind = "dir"

\* Whether File::create(path) can succeed: the parent is there and the path
\* does not name a directory.
CanCreate(fs, path) ==
  /\ rootState # "missing"
  /\ path \in DOMAIN fs => fs[path].kind = "file"

\* The file opened for writing without truncation.
TruncateBug(fs, path) ==
  IF path \in DOMAIN fs THEN fs ELSE (path :> FileEntry(TRUE, <<>>)) @@ fs

\* File::create: the file exists afterwards and is empty.
Truncate(fs, path) == (path :> FileEntry(TRUE, <<>>)) @@ fs

\* A write of buf at offset 0 of a file holding old.
WriteAt0(old, buf) ==
  IF Len(buf) >= Len(old) THEN buf
  ELSE buf \o SubSeq(old, Len(buf) + 1, Len(old))

\* read_dir's error dropped: a root that cannot be listed counts as empty.
ReadDirIgnoreErr ==
  /\ pc = "read_dir" /\ result = "none"
  /\ calls' = calls \cup {Call("read_dir", <<>>)}
  /\ pc' = "loop"
  /\ UNCHANGED <<rootState, entries, entries0, runs, prev, seen, lib_rs, result>>

\* File::create moved above the loop.
ReadDirCreateFirst ==
  /\ pc = "read_dir" /\ result = "none"
  /\ calls' = calls \cup {Call("read_dir", <<>>), Call("create", <<OutputPath>>)}
  /\ IF rootState = "dir"
       THEN /\ pc' = "loop" /\ result' = result
            /\ entries' = IF CanCreate(entries, OutputPath)
                             THEN Truncate(entries, OutputPath) ELSE entries
       ELSE pc' = pc /\ result' = "IoError" /\ entries' = entries
  /\ UNCHANGED <<rootState, entries0, runs, prev, seen, lib_rs>>

\* line 6: std::fs::read_dir("src/namespaces")?
ReadDir ==
  /\ pc = "read_dir" /\ result = "none"
  /\ calls' = calls \cup {Call("read_dir", <<>>)}
  /\ IF rootState = "dir"
       THEN pc' = "loop" /\ result' = result
       ELSE pc' = pc /\ result' = "IoError"
  /\ UNCHANGED <<rootState, entries, entries0, runs, prev, seen, lib_rs>>

\* lines 6-11: the iterator yields Ok(entry) for n, a name it has not yet
\* returned, and the loop body runs.  (file_name() of a path read_dir
\* returns is never None, so only to_str().unwrap() can panic.)
LoopBody(n) ==
  /\ pc = "loop" /\ result = "none"
  /\ n \in DOMAIN entries \ Range(seen)
  /\ seen' = Append(seen, n)
  /\ calls' = calls \cup {Call("metadata", <<n>>)}
  /\ IF IsDir(entries, n)
       THEN IF ToStr(n) = None
              THEN result' = "Panic" /\ lib_rs' = lib_rs
              ELSE result' = result /\ lib_rs' = lib_rs \o Format(ToStr(n)[1])
       ELSE result' = result /\ lib_rs' = lib_rs
  /\ UNCHANGED <<rootState, entries, entries0, runs, prev, pc>>

\* line 7: the iterator yields Err(e); entry? returns it.
LoopEntryErr ==
  /\ pc = "loop" /\ result = "none"
  /\ result' = "IoError"
  /\ UNCHANGED <<rootState, entries, entries0, runs, prev, pc, seen, lib_rs, calls>>

\* line 12: the iterator is exhausted.
LoopEnd ==
  /\ pc = "loop" /\ result = "none"
  /\ DOMAIN entries \ Range(seen) = {}
  /\ pc' = "create"
  /\ UNCHANGED <<rootState, entries, entries0, runs, prev, seen, lib_rs, result, calls>>

\* line 14: File::create("src/namespaces/mod.rs") succeeds.
FileCreate ==
  /\ pc = "create" /\ result = "none"
  /\ CanCreate(entries, OutputPath)
  /\ entries' = Truncate(entries, OutputPath)
  /\ calls' = calls \cup {Call("create", <<OutputPath>>)}
  /\ pc' = "write"
  /\ UNCHANGED <<rootState, entries0, runs, prev, seen, lib_rs, result>>

\* line 14: File::create fails (the path is a directory, or the operating
\* system refuses); ? returns the error.
FileCreateErr ==
  /\ pc = "create" /\ result = "none"
  /\ calls' = calls \cup {Call("create", <<OutputPath>>)}
  /\ result' = "IoError"
  /\ UNCHANGED <<rootState, entries, entries0, runs, prev, pc, seen, lib_rs>>

\* lines 15-16: write_all writes every byte; main returns Ok(()).
WriteAll ==
  /\ pc = "write" /\ result = "none"
  /\ entries' = [entries EXCEPT ![OutputPath].data = WriteAt0(@, lib_rs)]
  /\ calls' = calls \cup {Call("write", <<OutputPath>>)}
  /\ pc' = "return"
  /\ result' = "Ok"
  /\ UNCHANGED <<rootState, entries0, runs, prev, seen, lib_rs>>

\* line 15: write_all fails after k < len bytes went out; ? returns the error.
WriteAllErr ==
  /\ pc = "write" /\ result = "none"
  /\ \E k \in 0..(Len(lib_rs) - 1) :
       entries' = [entries EXCEPT
                     ![OutputPath].data = WriteAt0(@, SubSeq(lib_rs, 1, k))]
  /\ calls' = calls \cup {Call("write", <<OutputPath>>)}
  /\ result' = "IoError"
  /\ UNCHANGED <<rootState, entries0, runs, prev, pc, seen, lib_rs>>

\* The build runs the script again once a run has ended (main starts anew,
\* lines 3-4); nothing else changes the tree in between.
Restart ==
  /\ result # "none" /\ runs < MaxRuns
  /\ runs' = runs + 1
  /\ prev' = result
  /\ entries0' = entries
  /\ pc' = "read_dir"
  /\ seen' = <<>>
  /\ lib_rs' = <<>>
  /\ result' = "none"
  /\ calls' = {}
  /\ UNCHANGED <<rootState, entries>>

Next ==
  \/ ReadDir
  \/ \E n \in NamePool \cup {ModRs} : LoopBody(n)
  \/ LoopEntryErr
  \/ LoopEnd
  \/ FileCreate
  \/ FileCreateErr
  \/ WriteAll
  \/ WriteAllErr
  \/ Restart

Spec == Init /\ [][Next]_vars

-----------------------------------------------------------------------------
(* Reading the output file back as text.                                   *)

\* Index of the first newline (byte 10) of b, or 0 when b holds none.
FirstNl(b) ==
  IF \E i \in 1..Len(b) : b[i] = 10
    THEN CHOOSE i \in 1..Len(b) : b[i] = 10 /\ \A j \in 1..(i - 1) : b[j] # 10
    ELSE 0

\* The lines of b, without their newlines; bytes after the last newline
\* count as one more line.
RECURSIVE SplitLines(_)
SplitLines(b) ==
  IF b = <<>> THEN <<>>
  ELSE IF FirstNl(b) = 0 THEN <<b>>
  ELSE <<SubSeq(b, 1, FirstNl(b) - 1)>>
         \o SplitLines(SubSeq(b, FirstNl(b) + 1, Len(b)))

\* The text "pub mod <name>;" for the bytes of name, copied unchanged.
DeclLine(name) ==
  <<112, 117, 98, 32, 109, 111, 100, 32>> \o name \o <<59>>

\* The output file's bytes (empty when there is no such file).
OutData(fs) == IF ModRs \in DOMAIN fs THEN fs[ModRs].data ELSE <<>>

\* The entries of the tree that are directories, and those that are files.
Subdirs(fs) == {n \in DOMAIN fs : fs[n].kind = "dir"}
PlainFiles(fs) == {n \in DOMAIN fs : fs[n].kind = "file"}

\* Every entry's metadata can be read.
AllMetaOk(fs) == \A n \in DOMAIN fs : fs[n].meta

\* The declarations for the names of order that are subdirectories of fs,
\* in that order, each followed by a newline.
RECURSIVE DeclsInOrder(_, _)
DeclsInOrder(order, fs) ==
  IF order = <<>> THEN <<>>
  ELSE (IF fs[Head(order)].kind = "dir"
          THEN DeclLine(Head(order)) \o <<10>> ELSE <<>>)
         \o DeclsInOrder(Tail(order), fs)

-----------------------------------------------------------------------------
(* Properties.                                                             *)

\* C1: after a successful run over a tree whose metadata is all readable,
\* the output file exists and holds exactly one line "pub mod <name>;" per
\* subdirectory, each once, no line for a plain file (mod.rs included),
\* nothing else; with no subdirectory the file is empty.
C1_OneDeclPerSubdir ==
  (result = "Ok" /\ AllMetaOk(entries0)) =>
    LET L == SplitLines(OutData(entries))
        D == Subdirs(entries0)
    IN /\ ModRs \in DOMAIN entries /\ entries[ModRs].kind = "file"
       /\ Len(L) = Cardinality(D)
       /\ \A d \in D : Cardinality({i \in 1..Len(L) : L[i] = DeclLine(d)}) = 1
       /\ \A f \in PlainFiles(entries0) \cup {ModRs} :
            \A i \in 1..Len(L) : L[i] # DeclLine(f)
       /\ \A i \in 1..Len(L) : \E d \in D : L[i] = DeclLine(d)
       /\ D = {} => OutData(entries) = <<>>

\* A successful run over one subdirectory, a plain file named 0xFF and a
\* stale mod.rs, every metadata readable.
C1_Witness ==
  /\ result = "Ok" /\ AllMetaOk(entries0)
  /\ Cardinality(Subdirs(entries0)) = 1
  /\ <<255>> \in PlainFiles(entries0)
  /\ ModRs \in PlainFiles(entries0)

\* C2: when mod.rs was there before the run, a successful run leaves in it
\* exactly the text the run accumulated (same bytes, same length, whatever
\* the file held), and every line of it declares a subdirectory of the tree.
C2_StaleContentGone ==
  (result = "Ok" /\ ModRs \in DOMAIN entries0) =>
    /\ Len(entries[ModRs].data) = Len(lib_rs)
    /\ entries[ModRs].data = lib_rs
    /\ \A l \in Range(SplitLines(entries[ModRs].data)) :
         \E d \in Subdirs(entries0) : l = DeclLine(d)

\* A successful run that wrote a shorter, non-empty text over a longer
\* stale file.
C2_Witness ==
  /\ result = "Ok" /\ ModRs \in DOMAIN entries0
  /\ lib_rs # <<>>
  /\ Len(entries0[ModRs].data) > Len(lib_rs)

\* C3 (as claimed): a successful run that follows a successful run, the tree
\* untouched in between, leaves the bytes the previous run left.
C3_SecondRunSameBytes ==
  (prev = "Ok" /\ result = "Ok") => OutData(entries) = OutData(entries0)

\* C4: when src/namespaces is missing or cannot be listed, the run stops at
\* read_dir with IoError and the tree stays as it was.
C4_NoRootNoChange ==
  rootState # "dir" =>
    /\ pc = "read_dir"
    /\ result \in {"none", "IoError"}
    /\ entries = entries0

\* The run has ended with IoError on a missing root.
C4_Witness ==
  rootState = "missing" /\ result = "IoError" /\ calls # {}

\* C5 (as claimed): a run that examined an entry whose metadata cannot be
\* read does not succeed.
C5_UnreadableMetaFails ==
  result = "Ok" => \A n \in Range(seen) : entries0[n].meta

\* C6: with every metadata readable and no IoError, the run ends in a panic
\* exactly when some subdirectory's name holds the byte 0xFF; such a name
\* on a plain file does not make it fail.
C6_PanicIffBadDirName ==
  (result \in {"Ok", "Panic"} /\ AllMetaOk(entries0)) =>
    (result = "Panic" <=>
       \E d \in Subdirs(entries0) : \E i \in 1..Len(d) : d[i] = 255)

\* The run panicked on a subdirectory named 0xFF after it had accumulated a
\* declaration.
C6_Witness ==
  /\ result = "Panic" /\ AllMetaOk(entries0)
  /\ lib_rs # <<>>
  /\ <<255>> \in Subdirs(entries0)

\* C7: no step removes or changes an entry other than mod.rs, adds any
\* entry other than mod.rs, or changes what src/namespaces is; and every
\* path a run accesses is src/namespaces or one of its immediate entries,
\* and mod.rs if the run creates or writes it.
C7_OnlyOutputChanges ==
  [][ /\ rootState' = rootState
      /\ DOMAIN entries' \subseteq DOMAIN entries \cup {ModRs}
      /\ \A n \in DOMAIN entries \ {ModRs} :
           n \in DOMAIN entries' /\ entries'[n] = entries[n]
      /\ \A c \in calls' :
           /\ Len(c.path) <= 1
           /\ c.op \in {"create", "write"} => c.path = <<ModRs>> ]_vars

\* A successful run created mod.rs beside a subdirectory and another entry.
C7_Witness ==
  /\ result = "Ok"
  /\ ModRs \notin DOMAIN entries0
  /\ Subdirs(entries) # {}
  /\ Cardinality(DOMAIN entries) = 3

\* C8: a run that follows a successful run never accumulates a declaration
\* of mod.rs; no successful run writes one; and a successful run that
\* follows a successful run declares the same set of namespaces as that one.
C8_OutputNotANamespace ==
  /\ prev = "Ok" =>
       \A l \in Range(SplitLines(lib_rs)) : l # DeclLine(ModRs)
  /\ result = "Ok" =>
       /\ \A l \in Range(SplitLines(OutData(entries))) : l # DeclLine(ModRs)
       /\ prev = "Ok" =>
            Range(SplitLines(OutData(entries)))
              = Range(SplitLines(OutData(entries0)))

\* A second successful run, over two subdirectories, whose iterator
\* returned mod.rs.
C8_Witness ==
  /\ prev = "Ok" /\ result = "Ok"
  /\ ModRs \in Range(seen)
  /\ Cardinality(Subdirs(entries0)) = 2

\* C9 (as claimed): on success the output is the concatenation, in the
\* order the iterator returned the entries, of "pub mod <name>;\n" for each
\* subdirectory, the name copied unchanged.
C9_EnumerationOrderExactNames ==
  result = "Ok" => OutData(entries) = DeclsInOrder(seen, entries0)

\* C10: until the loop has ended without failure (the run is at read_dir or
\* in the loop, running or failed there), File::create has not been called
\* and the tree is as it was when the run started.
C10_CreateAfterEnumeration ==
  pc \in {"read_dir", "loop"} =>
    /\ entries = entries0
    /\ \A c \in calls : c.op \notin {"create", "write"}

\* The iterator failed after a declaration was accumulated, with a stale
\* mod.rs in place.
C10_Witness ==
  /\ pc = "loop" /\ result = "IoError"
  /\ lib_rs # <<>>
  /\ ModRs \in DOMAIN entries0 /\ entries0[ModRs].data # <<>>

====
